---- MODULE Spec2Model ----
(***************************************************************************)
(* Model of the log-processor engine (internal/processor): the offset      *)
(* store (offset.go), the line reader (reader.go), the segment registry    *)
(* (segment.go) and the worker pool (processor.go).                        *)
(*                                                                         *)
(* Segment names are the naturals 1..NumSegs, ordered as the timestamp     *)
(* suffixes order the file names.  A segment file is the sequence of the   *)
(* byte lengths of its lines; offsets are byte offsets.                    *)
(***************************************************************************)
EXTENDS Integers, Sequences, FiniteSets, TLC

\* ---------------------------------------------------------------- bounds
WorkerCount == 2
NumSegs == 2
MaxLines == 2
MaxRuns == 2
MaxFaults == 1
MaxBytes == 4
MaxErrors == 2
WindowLines == 100

\* ------------------------------------------------------ program constants
CommitInterval == 100
NoWorker == -1

Workers == 0..(WorkerCount - 1)
Names == 1..NumSegs
NoSeg == 0

SegmentPending == "Pending"
SegmentProcessing == "Processing"
SegmentComplete == "Complete"

VARIABLES
    files,           \* logs directory: name -> [exists, lines]
    disk,            \* offsets directory: name -> [exists, Offset, LinesProcessed]
    tmp,             \* offsets directory, the .offset.json.tmp files: name -> [exists, whole, data]
    phase,           \* "none" | "new" | "running" | "stopping" | "stopped" | "api"
    runs,            \* number of Start calls that took effect
    ctxDone,         \* p.ctx is cancelled
    scanner,         \* the scanLoop goroutine is alive
    workerWg,        \* Processor.workerWg: worker goroutines started and not returned
    offsets,         \* OffsetManager.offsets
    segments,        \* SegmentManager.segments
    processed,       \* Processor.processed
    errors,          \* Processor.errors
    pc,              \* position of each worker goroutine
    seg,             \* the segment a worker is in processSegment for
    todo,            \* rest of the GetPendingSegments snapshot of a worker
    reader,          \* LogReader of a worker: [pos, offset, lineNumber]
    linesProcessed,  \* local linesProcessed of processSegment
    faults,          \* injected failures so far, by kind
    crashes,         \* abrupt process terminations so far
    readErr,         \* history: segments whose last reader returned a non-EOF error
    delivered,       \* history: name -> end offsets of the lines given to the callback
    cbCount,         \* history: name -> number of callback invocations, all runs
    lastPost,        \* history: name -> offset after the last record given to the callback by this process
    doneBefore,      \* history: segments Complete, read to EOF, when an earlier process ended
    cbRun,           \* history: segments given to the callback by the current process
    call             \* history: last registry call [op, name, worker, ret]

vars == <<files, disk, tmp, phase, runs, ctxDone, scanner, workerWg, offsets, segments,
          processed, errors, pc, seg, todo, reader, linesProcessed,
          faults, crashes, readErr, delivered, cbCount, lastPost, doneBefore, cbRun, call>>

workerVars == <<pc, seg, todo, reader, linesProcessed>>
histVars == <<readErr, delivered, cbCount, lastPost, doneBefore, cbRun, call>>

\* ------------------------------------------------------------ segment files
RECURSIVE SumSeq(_)
SumSeq(s) == IF s = <<>> THEN 0 ELSE Head(s) + SumSeq(Tail(s))

\* the file the producer rotates out as segment n: MaxLines lines, line i being
\* i + 1 bytes long, for an odd n and an empty file for an even n
Content(n) == IF n % 2 = 1 THEN [i \in 1..MaxLines |-> i + 1] ELSE <<>>

NoFile == [exists |-> FALSE, lines |-> <<>>]

FileSize(f) == SumSeq(f.lines)

\* end offsets of the lines of a file
LineEnds(f) == {SumSeq(SubSeq(f.lines, 1, k)) : k \in 1..Len(f.lines)}

SetMin(S) == CHOOSE x \in S : \A y \in S : x <= y

\* ------------------------------------------------------------- offset store
NoOffset == [exists |-> FALSE, Offset |-> 0, LinesProcessed |-> 0]

OffsetData(offset, lines) == [exists |-> TRUE, Offset |-> offset, LinesProcessed |-> lines]

\* a file <name>.offset.json.tmp: whole when the JSON document is all there
NoTmp == [exists |-> FALSE, whole |-> FALSE, data |-> NoOffset]

TmpFile(whole, data) == [exists |-> TRUE, whole |-> whole, data |-> IF whole THEN data ELSE NoOffset]

loadAllDrop(d, t) == [n \in Names |-> NoOffset]

\* Glob("*.offset.json") matches the records and no temp file
loadAll(d, t) == [n \in Names |-> d[n]]

GetOffsetZero(om, name) == 0

GetOffset(om, name) == IF om[name].exists THEN om[name].Offset ELSE 0

GetLines(om, name) == IF om[name].exists THEN om[name].LinesProcessed ELSE 0

CommitOffset(om, name, offset, lines) == [om EXCEPT ![name] = OffsetData(offset, lines)]

\* how far a persist gets: nothing written, the temp file partly written,
\* the temp file written and not renamed, the temp file renamed
PersistSteps == {"none", "write", "rename", "done"}

\* a persist that writes the record file itself: a partly written record is
\* a file that loadAll skips
persistInPlace(d, t, name, data, upTo) ==
    CASE upTo = "none" -> [disk |-> d, tmp |-> t]
      [] upTo = "write" -> [disk |-> [d EXCEPT ![name] = NoOffset], tmp |-> t]
      [] OTHER -> [disk |-> [d EXCEPT ![name] = data], tmp |-> t]

\* a persist that writes every segment's record through one temp file, the
\* one of the lowest name
persistSharedTmp(d, t, name, data, upTo) ==
    LET one == SetMin(Names) IN
    CASE upTo = "none" -> [disk |-> d, tmp |-> t]
      [] upTo = "write" -> [disk |-> d, tmp |-> [t EXCEPT ![one] = TmpFile(FALSE, data)]]
      [] upTo = "rename" -> [disk |-> d, tmp |-> [t EXCEPT ![one] = TmpFile(TRUE, data)]]
      [] OTHER -> [disk |-> [d EXCEPT ![name] = data], tmp |-> [t EXCEPT ![one] = NoTmp]]

\* the offsets directory when persist has run up to a step, by returning an
\* error there or by the death of the process
persist(d, t, name, data, upTo) ==
    CASE upTo = "none" -> [disk |-> d, tmp |-> t]
      [] upTo = "write" -> [disk |-> d, tmp |-> [t EXCEPT ![name] = TmpFile(FALSE, data)]]
      [] upTo = "rename" -> [disk |-> d, tmp |-> [t EXCEPT ![name] = TmpFile(TRUE, data)]]
      [] OTHER -> [disk |-> [d EXCEPT ![name] = data], tmp |-> [t EXCEPT ![name] = NoTmp]]

\* the steps at which persist can return an error, and its steps with success
PersistErrors == {"write", "rename"}

PersistResults == PersistErrors \cup {"done"}

\* an IsComplete that takes a missing record for a record with offset 0
IsCompleteNoRecord(om, name, fileSize) ==
    (IF om[name].exists THEN om[name].Offset ELSE 0) >= fileSize

IsComplete(om, name, fileSize) == IF om[name].exists THEN om[name].Offset >= fileSize ELSE FALSE

\* -------------------------------------------------------------- line reader
\* pos is the position of the buffered reader in the file, offset is lr.offset
NewLogReaderZero(startOffset) ==
    [pos |-> IF startOffset > 0 THEN startOffset ELSE 0, offset |-> 0, lineNumber |-> 0]

NewLogReader(startOffset) ==
    [pos |-> IF startOffset > 0 THEN startOffset ELSE 0,
     offset |-> startOffset,
     lineNumber |-> 0]

\* bufio ReadBytes('\n') at byte position pos: the number of bytes up to and
\* including the next newline, or up to the end of the file; 0 at EOF
ReadBytes(f, pos) ==
    IF pos >= FileSize(f) THEN 0
    ELSE SetMin({e \in LineEnds(f) : e > pos}) - pos

ReadSkip(lr, f) ==
    LET n == ReadBytes(f, lr.pos)
        m == n + ReadBytes(f, lr.pos + n) IN
    IF n = 0 THEN [eof |-> TRUE, lr |-> lr]
    ELSE [eof |-> FALSE,
          lr |-> [pos |-> lr.pos + m, offset |-> lr.offset + m,
                  lineNumber |-> lr.lineNumber + 1]]

ReadCountLines(lr, f) ==
    LET n == ReadBytes(f, lr.pos) IN
    IF n = 0 THEN [eof |-> TRUE, lr |-> lr]
    ELSE [eof |-> FALSE,
          lr |-> [pos |-> lr.pos + n, offset |-> lr.offset + 1,
                  lineNumber |-> lr.lineNumber + 1]]

ReadExtraByte(lr, f) ==
    LET n == ReadBytes(f, lr.pos) IN
    IF n = 0 THEN [eof |-> TRUE, lr |-> lr]
    ELSE [eof |-> FALSE,
          lr |-> [pos |-> lr.pos + n, offset |-> lr.offset + n + 1,
                  lineNumber |-> lr.lineNumber + 1]]

\* a Read that returns an empty record at the end of the file
ReadBlank(lr, f) ==
    LET n == ReadBytes(f, lr.pos) IN
    [eof |-> FALSE,
     lr |-> [pos |-> lr.pos + n, offset |-> lr.offset + n,
             lineNumber |-> lr.lineNumber + 1]]

\* a Read that takes a last line with no newline for the end of the stream
ReadDropTail(lr, f) ==
    LET n == ReadBytes(f, lr.pos) IN
    IF n = 0 \/ (lr.pos + n = FileSize(f) /\ f.raw[Len(f.raw)] # "\n")
    THEN [eof |-> TRUE, lr |-> lr]
    ELSE [eof |-> FALSE,
          lr |-> [pos |-> lr.pos + n, offset |-> lr.offset + n,
                  lineNumber |-> lr.lineNumber + 1]]

\* LogReader.Read without an I/O error: end of stream, or the reader after
\* the line
Read(lr, f) ==
    LET n == ReadBytes(f, lr.pos) IN
    IF n = 0 THEN [eof |-> TRUE, lr |-> lr]
    ELSE [eof |-> FALSE,
          lr |-> [pos |-> lr.pos + n, offset |-> lr.offset + n,
                  lineNumber |-> lr.lineNumber + 1]]

NoReader == [pos |-> 0, offset |-> 0, lineNumber |-> 0]

\* --------------------------------------------------------- segment registry
NoSegment == [exists |-> FALSE, Size |-> 0, State |-> SegmentPending, WorkerID |-> NoWorker]

\* a Scan that registers every file it finds again
ScanSegmentsAgain(sm, fs, om) ==
    [n \in Names |->
        IF ~fs[n].exists THEN sm[n]
        ELSE [exists |-> TRUE,
              Size |-> FileSize(fs[n]),
              State |-> IF IsComplete(om, n, FileSize(fs[n]))
                        THEN SegmentComplete ELSE SegmentPending,
              WorkerID |-> NoWorker]]

ScanSegments(sm, fs, om) ==
    [n \in Names |->
        IF sm[n].exists \/ ~fs[n].exists THEN sm[n]
        ELSE [exists |-> TRUE,
              Size |-> FileSize(fs[n]),
              State |-> IF IsComplete(om, n, FileSize(fs[n]))
                        THEN SegmentComplete ELSE SegmentPending,
              WorkerID |-> NoWorker]]

RECURSIVE SortedSeq(_)
SortedSeq(S) == IF S = {} THEN <<>>
                ELSE LET m == SetMin(S) IN <<m>> \o SortedSeq(S \ {m})

SetMax(S) == CHOOSE m \in S : \A x \in S : x <= m

\* a GetPendingSegments that sorts newest first
GetPendingSegmentsDescending(sm) ==
    LET RECURSIVE Desc(_)
        Desc(S) == IF S = {} THEN <<>>
                   ELSE LET m == SetMax(S) IN <<m>> \o Desc(S \ {m})
    IN Desc({n \in Names : sm[n].exists /\ sm[n].State = SegmentPending})

GetPendingSegments(sm) ==
    SortedSeq({n \in Names : sm[n].exists /\ sm[n].State = SegmentPending})

ClaimSegmentNoOwner(sm, name, workerID) ==
    IF ~(name \in Names /\ sm[name].exists) \/ sm[name].State # SegmentPending
    THEN [ret |-> FALSE, sm |-> sm]
    ELSE [ret |-> TRUE, sm |-> [sm EXCEPT ![name].State = SegmentProcessing]]

ClaimSegmentNoGuard(sm, name, workerID) ==
    IF ~(name \in Names /\ sm[name].exists)
    THEN [ret |-> FALSE, sm |-> sm]
    ELSE [ret |-> TRUE,
          sm |-> [sm EXCEPT ![name].State = SegmentProcessing,
                            ![name].WorkerID = workerID]]

ClaimSegment(sm, name, workerID) ==
    IF ~(name \in Names /\ sm[name].exists) \/ sm[name].State # SegmentPending
    THEN [ret |-> FALSE, sm |-> sm]
    ELSE [ret |-> TRUE,
          sm |-> [sm EXCEPT ![name].State = SegmentProcessing,
                            ![name].WorkerID = workerID]]

\* a MarkComplete that completes every registered segment
MarkCompleteAll(sm, name) ==
    [n \in Names |->
        IF sm[n].exists
        THEN [sm[n] EXCEPT !.State = SegmentComplete, !.WorkerID = NoWorker]
        ELSE sm[n]]

MarkComplete(sm, name) ==
    IF name \in Names /\ sm[name].exists
    THEN [sm EXCEPT ![name].State = SegmentComplete, ![name].WorkerID = NoWorker]
    ELSE sm

\* a ReleaseSegment that leaves the owner in place
ReleaseSegmentOwned(sm, name) ==
    IF name \in Names /\ sm[name].exists
    THEN [sm EXCEPT ![name].State = SegmentPending]
    ELSE sm

ReleaseSegment(sm, name) ==
    IF name \in Names /\ sm[name].exists
    THEN [sm EXCEPT ![name].State = SegmentPending, ![name].WorkerID = NoWorker]
    ELSE sm

\* ------------------------------------------------------------------- faults
Kinds == {"open", "read", "persist", "callback"}

NoFaults == [k \in Kinds |-> 0]

FaultSum == faults["open"] + faults["read"] + faults["persist"] + faults["callback"]

CanFault == FaultSum < MaxFaults

Fault(k) == [faults EXCEPT ![k] = @ + 1]

NoCall == [op |-> "none", name |-> NoSeg, worker |-> NoWorker, ret |-> FALSE,
           offset |-> 0, lines |-> 0]

ApiCall(op, n, w, r) == [NoCall EXCEPT !.op = op, !.name = n, !.worker = w, !.ret = r]

\* a call of the offset manager: its two numbers, given or returned
OffsetCall(op, n, offset, lines, r) ==
    [ApiCall(op, n, NoWorker, r) EXCEPT !.offset = offset, !.lines = lines]

\* -------------------------------------------------------------------- Init
Init ==
    /\ files = [n \in Names |-> NoFile]
    /\ disk = [n \in Names |-> NoOffset]
    /\ tmp = [n \in Names |-> NoTmp]
    /\ phase = "none"
    /\ runs = 0
    /\ ctxDone = FALSE
    /\ scanner = FALSE
    /\ workerWg = 0
    /\ offsets = [n \in Names |-> NoOffset]
    /\ segments = [n \in Names |-> NoSegment]
    /\ processed = 0
    /\ errors = 0
    /\ pc = [w \in Workers |-> "idle"]
    /\ seg = [w \in Workers |-> NoSeg]
    /\ todo = [w \in Workers |-> <<>>]
    /\ reader = [w \in Workers |-> NoReader]
    /\ linesProcessed = [w \in Workers |-> 0]
    /\ faults = NoFaults
    /\ crashes = 0
    /\ readErr = {}
    /\ delivered = [n \in Names |-> {}]
    /\ cbCount = [n \in Names |-> 0]
    /\ lastPost = [n \in Names |-> 0]
    /\ doneBefore = {}
    /\ cbRun = {}
    /\ call = NoCall

\* ------------------------------------------------------------- environment
\* the producer rotates the active file out as segment n; the
\* names carry the rotation time, so a new segment has the highest name
Rotate(n) ==
    /\ phase # "api"
    /\ ~files[n].exists
    /\ \A m \in Names : m < n => files[m].exists
    /\ files' = [files EXCEPT ![n] = [exists |-> TRUE, lines |-> Content(n)]]
    /\ UNCHANGED <<disk, tmp, phase, runs, ctxDone, scanner, workerWg, offsets, segments,
                   processed, errors, faults, crashes>>
    /\ UNCHANGED workerVars
    /\ UNCHANGED histVars

CompleteNow == {n \in Names : segments[n].exists /\ segments[n].State = SegmentComplete}

\* the process dies: memory is lost
Die ==
    /\ crashes' = crashes + 1
    /\ phase' = "none"
    /\ ctxDone' = FALSE
    /\ scanner' = FALSE
    /\ workerWg' = 0
    /\ offsets' = [n \in Names |-> NoOffset]
    /\ segments' = [n \in Names |-> NoSegment]
    /\ processed' = 0
    /\ errors' = 0
    /\ pc' = [w \in Workers |-> "idle"]
    /\ seg' = [w \in Workers |-> NoSeg]
    /\ todo' = [w \in Workers |-> <<>>]
    /\ reader' = [w \in Workers |-> NoReader]
    /\ linesProcessed' = [w \in Workers |-> 0]
    /\ doneBefore' = doneBefore \cup (CompleteNow \ readErr)
    /\ cbRun' = {}
    /\ lastPost' = [n \in Names |-> 0]
    /\ readErr' = {}
    /\ UNCHANGED <<files, runs, faults, delivered, cbCount, call>>

\* the process dies outside a commit: the two directories stay
Crash ==
    /\ phase \in {"running", "stopping"}
    /\ Die
    /\ UNCHANGED <<disk, tmp>>

\* ---------------------------------------------------------------- Processor
\* NewProcessor in a fresh process: NewOffsetManager loads the offsets
\* directory, the registry is empty, the workers are created but not started
NewProcessor ==
    /\ phase \in {"none", "stopped"}
    /\ runs < MaxRuns
    /\ phase' = "new"
    /\ ctxDone' = FALSE
    /\ scanner' = FALSE
    /\ workerWg' = 0
    /\ offsets' = loadAll(disk, tmp)
    /\ segments' = [n \in Names |-> NoSegment]
    /\ processed' = 0
    /\ errors' = 0
    /\ pc' = [w \in Workers |-> "idle"]
    /\ seg' = [w \in Workers |-> NoSeg]
    /\ todo' = [w \in Workers |-> <<>>]
    /\ reader' = [w \in Workers |-> NoReader]
    /\ linesProcessed' = [w \in Workers |-> 0]
    /\ doneBefore' = doneBefore \cup (CompleteNow \ readErr)
    /\ cbRun' = {}
    /\ lastPost' = [n \in Names |-> 0]
    /\ readErr' = {}
    /\ UNCHANGED <<files, disk, tmp, runs, faults, crashes, delivered, cbCount, call>>

\* Start when not running: new context, initial Scan, workers and scanner
Start ==
    /\ phase \in {"new", "stopped"}
    /\ runs < MaxRuns
    /\ runs' = runs + 1
    /\ phase' = "running"
    /\ ctxDone' = FALSE
    /\ segments' = ScanSegments(segments, files, offsets)
    /\ pc' = [w \in Workers |-> "run"]
    /\ workerWg' = workerWg + WorkerCount
    /\ scanner' = TRUE
    /\ UNCHANGED <<files, disk, tmp, offsets, processed, errors, seg, todo, reader,
                   linesProcessed, faults, crashes>>
    /\ UNCHANGED histVars

\* the context given to Start is cancelled by its owner
Cancel ==
    /\ phase = "running"
    /\ ~ctxDone
    /\ ctxDone' = TRUE
    /\ UNCHANGED <<files, disk, tmp, phase, runs, scanner, workerWg, offsets, segments,
                   processed, errors, faults, crashes>>
    /\ UNCHANGED workerVars
    /\ UNCHANGED histVars

\* Stop up to workerWg.Wait: running.Swap(false), cancel
StopCancel ==
    /\ phase = "running"
    /\ phase' = "stopping"
    /\ ctxDone' = TRUE
    /\ UNCHANGED <<files, disk, tmp, runs, scanner, workerWg, offsets, segments,
                   processed, errors, faults, crashes>>
    /\ UNCHANGED workerVars
    /\ UNCHANGED histVars

\* a Stop that returns without joining the workers
StopNoWait ==
    /\ phase = "stopping"
    /\ phase' = "stopped"
    /\ UNCHANGED <<files, disk, tmp, runs, ctxDone, scanner, workerWg, offsets, segments,
                   processed, errors, faults, crashes>>
    /\ UNCHANGED workerVars
    /\ UNCHANGED histVars

\* workerWg.Wait returns when every worker has called Done
StopReturn ==
    /\ phase = "stopping"
    /\ workerWg = 0
    /\ phase' = "stopped"
    /\ UNCHANGED <<files, disk, tmp, runs, ctxDone, scanner, workerWg, offsets, segments,
                   processed, errors, faults, crashes>>
    /\ UNCHANGED workerVars
    /\ UNCHANGED histVars

Alive == phase \in {"running", "stopping"}

\* a scanLoop whose tick does not scan
ScanTickIdle ==
    /\ scanner
    /\ phase \in {"running", "stopping", "stopped"}
    /\ UNCHANGED vars

\* scanLoop: a tick
ScanTick ==
    /\ scanner
    /\ phase \in {"running", "stopping", "stopped"}
    /\ segments' = ScanSegments(segments, files, offsets)
    /\ UNCHANGED <<files, disk, tmp, phase, runs, ctxDone, scanner, workerWg, offsets,
                   processed, errors, faults, crashes>>
    /\ UNCHANGED workerVars
    /\ UNCHANGED histVars

\* scanLoop: ctx.Done
ScannerExit ==
    /\ scanner
    /\ ctxDone
    /\ scanner' = FALSE
    /\ UNCHANGED <<files, disk, tmp, phase, runs, ctxDone, workerWg, offsets, segments,
                   processed, errors, faults, crashes>>
    /\ UNCHANGED workerVars
    /\ UNCHANGED histVars

\* ------------------------------------------------------------------ worker
Leave(w) ==
    /\ seg' = [seg EXCEPT ![w] = NoSeg]
    /\ todo' = [todo EXCEPT ![w] = <<>>]
    /\ reader' = [reader EXCEPT ![w] = NoReader]
    /\ linesProcessed' = [linesProcessed EXCEPT ![w] = 0]

\* run: <-ctx.Done() at the top of the loop
WorkerExit(w) ==
    /\ Alive
    /\ pc[w] = "run"
    /\ ctxDone
    /\ pc' = [pc EXCEPT ![w] = "exited"]
    /\ workerWg' = workerWg - 1
    /\ UNCHANGED <<files, disk, tmp, phase, runs, ctxDone, scanner, offsets, segments,
                   processed, errors, seg, todo, reader, linesProcessed,
                   faults, crashes>>
    /\ UNCHANGED histVars

\* run: GetPendingSegments; an empty list is the 100ms sleep
GetPending(w) ==
    /\ Alive
    /\ pc[w] = "run"
    /\ ~ctxDone
    /\ LET pending == GetPendingSegments(segments) IN
       IF pending = <<>>
       THEN UNCHANGED <<pc, todo>>
       ELSE /\ pc' = [pc EXCEPT ![w] = "try"]
            /\ todo' = [todo EXCEPT ![w] = pending]
    /\ UNCHANGED <<files, disk, tmp, phase, runs, ctxDone, scanner, workerWg, offsets, segments,
                   processed, errors, seg, reader, linesProcessed,
                   faults, crashes>>
    /\ UNCHANGED histVars

\* run: one iteration of the loop over the snapshot
TryClaim(w) ==
    /\ Alive
    /\ pc[w] = "try"
    /\ LET r == ClaimSegment(segments, Head(todo[w]), w) IN
       /\ segments' = r.sm
       /\ IF r.ret
          THEN /\ pc' = [pc EXCEPT ![w] = "start"]
               /\ seg' = [seg EXCEPT ![w] = Head(todo[w])]
               /\ todo' = [todo EXCEPT ![w] = <<>>]
          ELSE /\ pc' = [pc EXCEPT ![w] = IF Tail(todo[w]) = <<>> THEN "run" ELSE "try"]
               /\ todo' = [todo EXCEPT ![w] = Tail(todo[w])]
               /\ UNCHANGED seg
    /\ UNCHANGED <<files, disk, tmp, phase, runs, ctxDone, scanner, workerWg, offsets,
                   processed, errors, reader, linesProcessed, faults, crashes>>
    /\ UNCHANGED histVars

\* processSegment: GetOffset, NewLogReader succeeds
OpenReader(w) ==
    /\ Alive
    /\ pc[w] = "start"
    /\ reader' = [reader EXCEPT ![w] = NewLogReader(GetOffset(offsets, seg[w]))]
    /\ linesProcessed' = [linesProcessed EXCEPT ![w] = 0]
    /\ pc' = [pc EXCEPT ![w] = "loop"]
    /\ readErr' = readErr \ {seg[w]}
    /\ UNCHANGED <<files, disk, tmp, phase, runs, ctxDone, scanner, workerWg, offsets, segments,
                   processed, errors, seg, todo, faults, crashes>>
    /\ UNCHANGED <<delivered, cbCount, lastPost, doneBefore, cbRun, call>>

\* an open failure that returns without releasing the segment
OpenFailKeep(w) ==
    /\ Alive
    /\ pc[w] = "start"
    /\ CanFault
    /\ faults' = Fault("open")
    /\ errors' = errors + 1
    /\ pc' = [pc EXCEPT ![w] = "run"]
    /\ Leave(w)
    /\ UNCHANGED <<files, disk, tmp, phase, runs, ctxDone, scanner, workerWg, offsets,
                   segments, processed, crashes>>
    /\ UNCHANGED histVars

\* processSegment: NewLogReader fails
OpenFail(w) ==
    /\ Alive
    /\ pc[w] = "start"
    /\ CanFault
    /\ faults' = Fault("open")
    /\ errors' = errors + 1
    /\ segments' = ReleaseSegment(segments, seg[w])
    /\ pc' = [pc EXCEPT ![w] = "run"]
    /\ Leave(w)
    /\ UNCHANGED <<files, disk, tmp, phase, runs, ctxDone, scanner, workerWg, offsets,
                   processed, crashes>>
    /\ UNCHANGED histVars

\* CommitOffset(seg.Name, reader.Offset(), linesProcessed); res: the step at
\* which persist returns
Commit(w, res) ==
    /\ res = "done" \/ CanFault
    /\ LET om == CommitOffset(offsets, seg[w], reader[w].offset, linesProcessed[w])
           dir == persist(disk, tmp, seg[w], om[seg[w]], res) IN
       /\ offsets' = om
       /\ disk' = dir.disk
       /\ tmp' = dir.tmp
    /\ faults' = IF res = "done" THEN faults ELSE Fault("persist")

\* processSegment: <-ctx.Done() in the read loop, commit
CancelCommit(w, res) ==
    /\ Alive
    /\ pc[w] = "loop"
    /\ ctxDone
    /\ Commit(w, res)
    /\ pc' = [pc EXCEPT ![w] = "release"]
    /\ UNCHANGED <<files, phase, runs, ctxDone, scanner, workerWg, segments,
                   processed, errors, seg, todo, reader, linesProcessed, crashes>>
    /\ UNCHANGED histVars

\* processSegment: ReleaseSegment after the commit on cancellation, return
CancelRelease(w) ==
    /\ Alive
    /\ pc[w] = "release"
    /\ segments' = ReleaseSegment(segments, seg[w])
    /\ pc' = [pc EXCEPT ![w] = "run"]
    /\ Leave(w)
    /\ UNCHANGED <<files, disk, tmp, phase, runs, ctxDone, scanner, workerWg, offsets,
                   processed, errors, faults, crashes>>
    /\ UNCHANGED histVars

\* a read loop that does not look at the context before reader.Read
ReadRecordNoCheck(w) ==
    /\ Alive
    /\ pc[w] = "loop"
    /\ LET r == Read(reader[w], files[seg[w]]) IN
       /\ reader' = [reader EXCEPT ![w] = r.lr]
       /\ pc' = [pc EXCEPT ![w] = IF r.eof THEN "final" ELSE "callback"]
    /\ UNCHANGED <<files, disk, tmp, phase, runs, ctxDone, scanner, workerWg, offsets, segments,
                   processed, errors, seg, todo, linesProcessed, faults, crashes>>
    /\ UNCHANGED histVars

\* processSegment: reader.Read returns a record or io.EOF
ReadRecord(w) ==
    /\ Alive
    /\ pc[w] = "loop"
    /\ ~ctxDone
    /\ LET r == Read(reader[w], files[seg[w]]) IN
       /\ reader' = [reader EXCEPT ![w] = r.lr]
       /\ pc' = [pc EXCEPT ![w] = IF r.eof THEN "final" ELSE "callback"]
    /\ UNCHANGED <<files, disk, tmp, phase, runs, ctxDone, scanner, workerWg, offsets, segments,
                   processed, errors, seg, todo, linesProcessed, faults, crashes>>
    /\ UNCHANGED histVars

\* a processSegment that releases the segment on a read error
ReadErrorRelease(w) ==
    /\ Alive
    /\ pc[w] = "loop"
    /\ ~ctxDone
    /\ CanFault
    /\ faults' = Fault("read")
    /\ readErr' = readErr \cup {seg[w]}
    /\ pc' = [pc EXCEPT ![w] = "release"]
    /\ UNCHANGED <<files, disk, tmp, phase, runs, ctxDone, scanner, workerWg, offsets, segments,
                   processed, errors, seg, todo, reader, linesProcessed, crashes>>
    /\ UNCHANGED <<delivered, cbCount, lastPost, doneBefore, cbRun, call>>

\* processSegment: reader.Read returns an error other than io.EOF
ReadError(w) ==
    /\ Alive
    /\ pc[w] = "loop"
    /\ ~ctxDone
    /\ CanFault
    /\ faults' = Fault("read")
    /\ readErr' = readErr \cup {seg[w]}
    /\ pc' = [pc EXCEPT ![w] = "final"]
    /\ UNCHANGED <<files, disk, tmp, phase, runs, ctxDone, scanner, workerWg, offsets, segments,
                   processed, errors, seg, todo, reader, linesProcessed, crashes>>
    /\ UNCHANGED <<delivered, cbCount, lastPost, doneBefore, cbRun, call>>

\* a processSegment that leaves the read loop when processFunc returns an error
CallbackBreak(w, ok) ==
    /\ Alive
    /\ pc[w] = "callback"
    /\ ok \/ CanFault
    /\ IF ok
       THEN /\ processed' = processed + 1
            /\ linesProcessed' = [linesProcessed EXCEPT ![w] = @ + 1]
            /\ UNCHANGED <<errors, faults>>
       ELSE /\ errors' = errors + 1
            /\ faults' = Fault("callback")
            /\ UNCHANGED <<processed, linesProcessed>>
    /\ delivered' = [delivered EXCEPT ![seg[w]] = @ \cup {reader[w].offset}]
    /\ cbCount' = [cbCount EXCEPT ![seg[w]] = @ + 1]
    /\ lastPost' = [lastPost EXCEPT ![seg[w]] = reader[w].offset]
    /\ cbRun' = cbRun \cup {seg[w]}
    /\ pc' = [pc EXCEPT ![w] = IF ok THEN "check" ELSE "final"]
    /\ UNCHANGED <<files, disk, tmp, phase, runs, ctxDone, scanner, workerWg, offsets, segments,
                   seg, todo, reader, crashes>>
    /\ UNCHANGED <<readErr, doneBefore, call>>

\* a callback step that counts a failed record as processed too
CallbackCountAll(w, ok) ==
    /\ Alive
    /\ pc[w] = "callback"
    /\ ok \/ CanFault
    /\ processed' = processed + 1
    /\ IF ok
       THEN /\ linesProcessed' = [linesProcessed EXCEPT ![w] = @ + 1]
            /\ UNCHANGED <<errors, faults>>
       ELSE /\ errors' = errors + 1
            /\ faults' = Fault("callback")
            /\ UNCHANGED linesProcessed
    /\ delivered' = [delivered EXCEPT ![seg[w]] = @ \cup {reader[w].offset}]
    /\ cbCount' = [cbCount EXCEPT ![seg[w]] = @ + 1]
    /\ lastPost' = [lastPost EXCEPT ![seg[w]] = reader[w].offset]
    /\ cbRun' = cbRun \cup {seg[w]}
    /\ pc' = [pc EXCEPT ![w] = "check"]
    /\ UNCHANGED <<files, disk, tmp, phase, runs, ctxDone, scanner, workerWg, offsets, segments,
                   seg, todo, reader, crashes>>
    /\ UNCHANGED <<readErr, doneBefore, call>>

\* processSegment: processFunc(record); ok: it returns nil
Callback(w, ok) ==
    /\ Alive
    /\ pc[w] = "callback"
    /\ ok \/ CanFault
    /\ IF ok
       THEN /\ processed' = processed + 1
            /\ linesProcessed' = [linesProcessed EXCEPT ![w] = @ + 1]
            /\ UNCHANGED <<errors, faults>>
       ELSE /\ errors' = errors + 1
            /\ faults' = Fault("callback")
            /\ UNCHANGED <<processed, linesProcessed>>
    /\ delivered' = [delivered EXCEPT ![seg[w]] = @ \cup {reader[w].offset}]
    /\ cbCount' = [cbCount EXCEPT ![seg[w]] = @ + 1]
    /\ lastPost' = [lastPost EXCEPT ![seg[w]] = reader[w].offset]
    /\ cbRun' = cbRun \cup {seg[w]}
    /\ pc' = [pc EXCEPT ![w] = "check"]
    /\ UNCHANGED <<files, disk, tmp, phase, runs, ctxDone, scanner, workerWg, offsets, segments,
                   seg, todo, reader, crashes>>
    /\ UNCHANGED <<readErr, doneBefore, call>>

\* processSegment: linesProcessed%100 == 0, commit
PeriodicCommit(w, res) ==
    /\ Alive
    /\ pc[w] = "check"
    /\ linesProcessed[w] % CommitInterval = 0
    /\ Commit(w, res)
    /\ pc' = [pc EXCEPT ![w] = "loop"]
    /\ UNCHANGED <<files, phase, runs, ctxDone, scanner, workerWg, segments,
                   processed, errors, seg, todo, reader, linesProcessed, crashes>>
    /\ UNCHANGED histVars

\* processSegment: linesProcessed%100 != 0
PeriodicSkip(w) ==
    /\ Alive
    /\ pc[w] = "check"
    /\ linesProcessed[w] % CommitInterval # 0
    /\ pc' = [pc EXCEPT ![w] = "loop"]
    /\ UNCHANGED <<files, disk, tmp, phase, runs, ctxDone, scanner, workerWg, offsets, segments,
                   processed, errors, seg, todo, reader, linesProcessed,
                   faults, crashes>>
    /\ UNCHANGED histVars

\* processSegment: the final offset commit after the loop
FinalCommit(w, res) ==
    /\ Alive
    /\ pc[w] = "final"
    /\ Commit(w, res)
    /\ pc' = [pc EXCEPT ![w] = "mark"]
    /\ UNCHANGED <<files, phase, runs, ctxDone, scanner, workerWg, segments,
                   processed, errors, seg, todo, reader, linesProcessed, crashes>>
    /\ UNCHANGED histVars

\* processSegment: MarkComplete, return
FinalMark(w) ==
    /\ Alive
    /\ pc[w] = "mark"
    /\ segments' = MarkComplete(segments, seg[w])
    /\ pc' = [pc EXCEPT ![w] = "run"]
    /\ Leave(w)
    /\ UNCHANGED <<files, disk, tmp, phase, runs, ctxDone, scanner, workerWg, offsets,
                   processed, errors, faults, crashes>>
    /\ UNCHANGED histVars

\* the worker is about to call CommitOffset
AtCommit(w) ==
    \/ pc[w] = "loop" /\ ctxDone
    \/ pc[w] = "check" /\ linesProcessed[w] % CommitInterval = 0
    \/ pc[w] = "final"

\* the record of the commit the worker is about to make
CommitData(w) == OffsetData(reader[w].offset, linesProcessed[w])

\* the process dies while worker w is in CommitOffset, persist having run up
\* to a step
CrashInCommit(w, upTo) ==
    /\ Alive
    /\ AtCommit(w)
    /\ LET dir == persist(disk, tmp, seg[w], CommitData(w), upTo) IN
       /\ disk' = dir.disk
       /\ tmp' = dir.tmp
    /\ Die

\* ----------------------------------------------------------- specification
Next ==
    \/ \E n \in Names : Rotate(n)
    \/ Crash
    \/ \E w \in Workers, upTo \in PersistSteps : CrashInCommit(w, upTo)
    \/ NewProcessor
    \/ Start
    \/ Cancel
    \/ StopCancel
    \/ StopReturn
    \/ ScanTick
    \/ ScannerExit
    \/ \E w \in Workers : WorkerExit(w)
    \/ \E w \in Workers : GetPending(w)
    \/ \E w \in Workers : TryClaim(w)
    \/ \E w \in Workers : OpenReader(w)
    \/ \E w \in Workers : OpenFail(w)
    \/ \E w \in Workers, res \in PersistResults : CancelCommit(w, res)
    \/ \E w \in Workers : CancelRelease(w)
    \/ \E w \in Workers : ReadRecord(w)
    \/ \E w \in Workers : ReadError(w)
    \/ \E w \in Workers, ok \in BOOLEAN : Callback(w, ok)
    \/ \E w \in Workers, res \in PersistResults : PeriodicCommit(w, res)
    \/ \E w \in Workers : PeriodicSkip(w)
    \/ \E w \in Workers, res \in PersistResults : FinalCommit(w, res)
    \/ \E w \in Workers : FinalMark(w)

Spec == Init /\ [][Next]_vars

\* --------------------------------------- the engine left to run, no failure
\* One run with no cancellation, no Stop, no death of the process and no I/O
\* failure; the callback may still return an error.
WorkerStep(w) ==
    \/ GetPending(w)
    \/ TryClaim(w)
    \/ OpenReader(w)
    \/ ReadRecord(w)
    \/ \E ok \in BOOLEAN : Callback(w, ok)
    \/ PeriodicCommit(w, "done")
    \/ PeriodicSkip(w)
    \/ FinalCommit(w, "done")
    \/ FinalMark(w)

NextLive ==
    \/ \E n \in Names : Rotate(n)
    \/ NewProcessor
    \/ Start
    \/ ScanTick
    \/ \E w \in Workers : GetPending(w)
    \/ \E w \in Workers : TryClaim(w)
    \/ \E w \in Workers : OpenReader(w)
    \/ \E w \in Workers : ReadRecord(w)
    \/ \E w \in Workers, ok \in BOOLEAN : Callback(w, ok)
    \/ \E w \in Workers : PeriodicCommit(w, "done")
    \/ \E w \in Workers : PeriodicSkip(w)
    \/ \E w \in Workers : FinalCommit(w, "done")
    \/ \E w \in Workers : FinalMark(w)

\* the ticker of scanLoop keeps firing and every worker goroutine keeps
\* being scheduled
SpecLive ==
    /\ Init
    /\ [][NextLive]_vars
    /\ WF_vars(ScanTick)
    /\ \A w \in Workers : WF_vars(WorkerStep(w))

\* ------------------------------------- a segment file that cannot be opened
\* One run of a Processor of k workers, 1 <= k <= WorkerCount, on a logs
\* directory in which one segment file, present like the others, can never
\* be opened (os.Open fails every time); no cancellation, no death of the
\* process and no other I/O failure.  errors counts up to MaxErrors and stays
\* there.
InitStarve ==
    /\ \E u \in Names :
          files = [n \in Names |-> [exists |-> TRUE, lines |-> Content(n), locked |-> (n = u)]]
    /\ disk = [n \in Names |-> NoOffset]
    /\ tmp = [n \in Names |-> NoTmp]
    /\ phase = "new"
    /\ runs = 0
    /\ ctxDone = FALSE
    /\ scanner = FALSE
    /\ workerWg = 0
    /\ offsets = [n \in Names |-> NoOffset]
    /\ segments = [n \in Names |-> NoSegment]
    /\ processed = 0
    /\ errors = 0
    /\ pc = [w \in Workers |-> "idle"]
    /\ seg = [w \in Workers |-> NoSeg]
    /\ todo = [w \in Workers |-> <<>>]
    /\ reader = [w \in Workers |-> NoReader]
    /\ linesProcessed = [w \in Workers |-> 0]
    /\ faults = NoFaults
    /\ crashes = 0
    /\ readErr = {}
    /\ delivered = [n \in Names |-> {}]
    /\ cbCount = [n \in Names |-> 0]
    /\ lastPost = [n \in Names |-> 0]
    /\ doneBefore = {}
    /\ cbRun = {}
    /\ call = NoCall

\* Start of a Processor configured with k workers
StartWorkers(k) ==
    /\ phase = "new"
    /\ runs' = runs + 1
    /\ phase' = "running"
    /\ ctxDone' = FALSE
    /\ segments' = ScanSegments(segments, files, offsets)
    /\ pc' = [w \in Workers |-> IF w < k THEN "run" ELSE "idle"]
    /\ workerWg' = workerWg + k
    /\ scanner' = TRUE
    /\ UNCHANGED <<files, disk, tmp, offsets, processed, errors, seg, todo, reader,
                   linesProcessed, faults, crashes>>
    /\ UNCHANGED histVars

\* processSegment: NewLogReader succeeds on a file that can be opened
OpenUnlocked(w) ==
    /\ pc[w] = "start"
    /\ ~files[seg[w]].locked
    /\ OpenReader(w)

\* processSegment: NewLogReader fails on the file that cannot be opened
OpenLocked(w) ==
    /\ Alive
    /\ pc[w] = "start"
    /\ files[seg[w]].locked
    /\ errors' = IF errors < MaxErrors THEN errors + 1 ELSE errors
    /\ segments' = ReleaseSegment(segments, seg[w])
    /\ pc' = [pc EXCEPT ![w] = "run"]
    /\ Leave(w)
    /\ UNCHANGED <<files, disk, tmp, phase, runs, ctxDone, scanner, workerWg, offsets,
                   processed, faults, crashes>>
    /\ UNCHANGED histVars

StarveStep(w) ==
    \/ GetPending(w)
    \/ TryClaim(w)
    \/ OpenUnlocked(w)
    \/ OpenLocked(w)
    \/ ReadRecord(w)
    \/ \E ok \in BOOLEAN : Callback(w, ok)
    \/ PeriodicCommit(w, "done")
    \/ PeriodicSkip(w)
    \/ FinalCommit(w, "done")
    \/ FinalMark(w)

NextStarve ==
    \/ \E k \in 1..WorkerCount : StartWorkers(k)
    \/ ScanTick
    \/ \E w \in Workers : GetPending(w)
    \/ \E w \in Workers : TryClaim(w)
    \/ \E w \in Workers : OpenUnlocked(w)
    \/ \E w \in Workers : OpenLocked(w)
    \/ \E w \in Workers : ReadRecord(w)
    \/ \E w \in Workers, ok \in BOOLEAN : Callback(w, ok)
    \/ \E w \in Workers : PeriodicCommit(w, "done")
    \/ \E w \in Workers : PeriodicSkip(w)
    \/ \E w \in Workers : FinalCommit(w, "done")
    \/ \E w \in Workers : FinalMark(w)

\* the ticker of scanLoop keeps firing and every worker goroutine keeps
\* being scheduled
SpecStarve ==
    /\ InitStarve
    /\ [][NextStarve]_vars
    /\ WF_vars(ScanTick)
    /\ \A w \in Workers : WF_vars(StarveStep(w))

\* --------------------------------------------- the read loop on a long file
\* Worker 0 in the read loop of processSegment on a segment of WindowLines
\* lines of one byte, claimed after a Start with an empty offsets directory;
\* no cancellation and no I/O failure, the callback may return an error.
LongFile == [exists |-> TRUE, lines |-> [i \in 1..WindowLines |-> 1]]

InitWindow ==
    /\ files = [n \in Names |-> IF n = 1 THEN LongFile ELSE NoFile]
    /\ disk = [n \in Names |-> NoOffset]
    /\ tmp = [n \in Names |-> NoTmp]
    /\ phase = "running"
    /\ runs = 1
    /\ ctxDone = FALSE
    /\ scanner = TRUE
    /\ workerWg = WorkerCount
    /\ offsets = [n \in Names |-> NoOffset]
    /\ segments = ClaimSegment(ScanSegments([n \in Names |-> NoSegment], files, offsets), 1, 0).sm
    /\ processed = 0
    /\ errors = 0
    /\ pc = [w \in Workers |-> IF w = 0 THEN "loop" ELSE "run"]
    /\ seg = [w \in Workers |-> IF w = 0 THEN 1 ELSE NoSeg]
    /\ todo = [w \in Workers |-> <<>>]
    /\ reader = [w \in Workers |-> IF w = 0 THEN NewLogReader(0) ELSE NoReader]
    /\ linesProcessed = [w \in Workers |-> 0]
    /\ faults = NoFaults
    /\ crashes = 0
    /\ readErr = {}
    /\ delivered = [n \in Names |-> {}]
    /\ cbCount = [n \in Names |-> 0]
    /\ lastPost = [n \in Names |-> 0]
    /\ doneBefore = {}
    /\ cbRun = {}
    /\ call = NoCall

NextWindow ==
    \/ \E w \in Workers : ReadRecord(w)
    \/ \E w \in Workers, ok \in BOOLEAN : Callback(w, ok)
    \/ \E w \in Workers : PeriodicCommit(w, "done")
    \/ \E w \in Workers : PeriodicSkip(w)
    \/ \E w \in Workers : FinalCommit(w, "done")
    \/ \E w \in Workers : FinalMark(w)

SpecWindow == InitWindow /\ [][NextWindow]_vars

\* ------------------------------------------------------ the reader by itself
\* A LogReader opened on any file of at most MaxBytes bytes, at any start
\* offset up to its size, and read until the end.  raw is the file byte by
\* byte; reader 0 is the reader, offsets[1] holds the start offset,
\* delivered[1] the offsets after the records returned, call the last Read.
Bytes == {"x", "\n"}

RawFiles == UNION {[1..k -> Bytes] : k \in 0..MaxBytes}

\* the positions at which ReadBytes('\n') stops: after each newline, and at
\* the end of the file
Boundaries(raw) ==
    {i \in 1..Len(raw) : raw[i] = "\n"} \cup (IF Len(raw) > 0 THEN {Len(raw)} ELSE {})

\* the byte lengths of the lines ReadBytes('\n') cuts the file into
LinesOf(raw) ==
    LET b == SortedSeq(Boundaries(raw)) IN
    [i \in 1..Len(b) |-> IF i = 1 THEN b[1] ELSE b[i] - b[i - 1]]

InitReader ==
    /\ \E raw \in RawFiles, s \in 0..MaxBytes :
        /\ s <= Len(raw)
        /\ files = [n \in Names |->
                      IF n = 1 THEN [exists |-> TRUE, lines |-> LinesOf(raw), raw |-> raw]
                      ELSE NoFile]
        /\ offsets = [n \in Names |->
                        IF n = 1 /\ s > 0 THEN OffsetData(s, 0) ELSE NoOffset]
        /\ reader = [w \in Workers |-> IF w = 0 THEN NewLogReader(s) ELSE NoReader]
    /\ disk = offsets
    /\ tmp = [n \in Names |-> NoTmp]
    /\ phase = "reader"
    /\ runs = 0
    /\ ctxDone = FALSE
    /\ scanner = FALSE
    /\ workerWg = 0
    /\ segments = [n \in Names |-> NoSegment]
    /\ processed = 0
    /\ errors = 0
    /\ pc = [w \in Workers |-> "idle"]
    /\ seg = [w \in Workers |-> NoSeg]
    /\ todo = [w \in Workers |-> <<>>]
    /\ linesProcessed = [w \in Workers |-> 0]
    /\ faults = NoFaults
    /\ crashes = 0
    /\ readErr = {}
    /\ delivered = [n \in Names |-> {}]
    /\ cbCount = [n \in Names |-> 0]
    /\ lastPost = [n \in Names |-> 0]
    /\ doneBefore = {}
    /\ cbRun = {}
    /\ call = NoCall

ReaderFrame ==
    UNCHANGED <<files, disk, tmp, phase, runs, ctxDone, scanner, workerWg, offsets,
                segments, processed, errors, pc, seg, todo, linesProcessed,
                crashes, readErr, cbCount, lastPost, doneBefore, cbRun>>

\* Read returns a record or io.EOF
ReaderRead ==
    /\ phase = "reader"
    /\ LET r == Read(reader[0], files[1]) IN
       /\ reader' = [reader EXCEPT ![0] = r.lr]
       /\ delivered' = IF r.eof THEN delivered
                       ELSE [delivered EXCEPT ![1] = @ \cup {r.lr.offset}]
       /\ call' = ApiCall(IF r.eof THEN "ReadEOF" ELSE "Read", 1, 0, ~r.eof)
    /\ UNCHANGED faults
    /\ ReaderFrame

\* Read returns an error other than io.EOF
ReaderReadError ==
    /\ phase = "reader"
    /\ CanFault
    /\ faults' = Fault("read")
    /\ call' = ApiCall("ReadError", 1, 0, FALSE)
    /\ UNCHANGED <<reader, delivered>>
    /\ ReaderFrame

NextReader ==
    \/ ReaderRead
    \/ ReaderReadError

SpecReader == InitReader /\ [][NextReader]_vars

\* ------------------------------------ Start and Stop called from any thread
\* The clients of one Processor call Start and Stop in any order and at any
\* time, also while another call is in progress.  The worker goroutines are
\* counted (workerWg); what they do with segments is in Spec.  call records
\* the last call and whether it passed the guard on p.running.
LifeFrame ==
    /\ UNCHANGED <<files, disk, tmp, offsets, processed, errors, faults, crashes>>
    /\ UNCHANGED workerVars
    /\ UNCHANGED <<readErr, delivered, cbCount, lastPost, doneBefore, cbRun>>

\* Start: p.running is true exactly in phase "running".  A Start that finds
\* Stop in workerWg.Wait replaces p.ctx under the goroutines that read it: k
\* of them have seen the old context cancelled and return, the others go on
\* with the new one
CallStart ==
    /\ phase \in {"new", "running", "stopping", "stopped"}
    /\ IF phase = "running"
       THEN /\ call' = ApiCall("Start", NoSeg, NoWorker, FALSE)
            /\ UNCHANGED <<phase, runs, ctxDone, scanner, workerWg, segments>>
       ELSE /\ runs < MaxRuns
            /\ runs' = runs + 1
            /\ phase' = "running"
            /\ ctxDone' = FALSE
            /\ segments' = ScanSegments(segments, files, offsets)
            /\ \E k \in 0..workerWg : workerWg' = (workerWg - k) + WorkerCount
            /\ scanner' = TRUE
            /\ call' = ApiCall("Start", NoSeg, NoWorker, TRUE)
    /\ LifeFrame

\* Stop up to workerWg.Wait
CallStop ==
    /\ phase \in {"new", "running", "stopping", "stopped"}
    /\ IF phase # "running"
       THEN /\ call' = ApiCall("Stop", NoSeg, NoWorker, FALSE)
            /\ UNCHANGED <<phase, ctxDone>>
       ELSE /\ phase' = "stopping"
            /\ ctxDone' = TRUE
            /\ call' = ApiCall("Stop", NoSeg, NoWorker, TRUE)
    /\ UNCHANGED <<runs, scanner, workerWg, segments>>
    /\ LifeFrame

\* a worker goroutine finds the context cancelled and returns
GoroutineExit ==
    /\ phase \in {"running", "stopping"}
    /\ workerWg > 0
    /\ ctxDone
    /\ workerWg' = workerWg - 1
    /\ UNCHANGED <<phase, runs, ctxDone, scanner, segments, call>>
    /\ LifeFrame

NextLifecycle ==
    \/ \E n \in Names : Rotate(n)
    \/ NewProcessor
    \/ CallStart
    \/ CallStop
    \/ Cancel
    \/ StopReturn
    \/ GoroutineExit
    \/ ScanTick
    \/ ScannerExit

SpecLifecycle == Init /\ [][NextLifecycle]_vars

\* ------------------------------------------- the managers called directly
\* A client of the package calls the exported methods of SegmentManager and
\* OffsetManager in any order, from any goroutine; the managers' locks make
\* each call one step.  call records the last call and what it returned.

InitApi ==
    /\ files = [n \in Names |-> NoFile]
    /\ disk = [n \in Names |-> NoOffset]
    /\ tmp = [n \in Names |-> NoTmp]
    /\ phase = "api"
    /\ runs = 0
    /\ ctxDone = FALSE
    /\ scanner = FALSE
    /\ workerWg = 0
    /\ offsets = [n \in Names |-> NoOffset]
    /\ segments = [n \in Names |-> NoSegment]
    /\ processed = 0
    /\ errors = 0
    /\ pc = [w \in Workers |-> "idle"]
    /\ seg = [w \in Workers |-> NoSeg]
    /\ todo = [w \in Workers |-> <<>>]
    /\ reader = [w \in Workers |-> NoReader]
    /\ linesProcessed = [w \in Workers |-> 0]
    /\ faults = NoFaults
    /\ crashes = 0
    /\ readErr = {}
    /\ delivered = [n \in Names |-> {}]
    /\ cbCount = [n \in Names |-> 0]
    /\ lastPost = [n \in Names |-> 0]
    /\ doneBefore = {}
    /\ cbRun = {}
    /\ call = NoCall

ApiFrameNoFault ==
    /\ UNCHANGED <<phase, runs, ctxDone, scanner, workerWg, processed, errors, crashes>>
    /\ UNCHANGED workerVars
    /\ UNCHANGED <<readErr, delivered, cbCount, lastPost, doneBefore, cbRun>>

ApiFrame ==
    /\ ApiFrameNoFault
    /\ UNCHANGED faults

\* the lines of file f that end at or before offset e
LinesUpTo(f, e) == Cardinality({x \in LineEnds(f) : x <= e})

ApiRotate(n) ==
    /\ phase = "api"
    /\ ~files[n].exists
    /\ \A m \in Names : m < n => files[m].exists
    /\ files' = [files EXCEPT ![n] = [exists |-> TRUE, lines |-> Content(n)]]
    /\ call' = ApiCall("Rotate", n, NoWorker, FALSE)
    /\ UNCHANGED <<disk, tmp, offsets, segments>>
    /\ ApiFrame

\* a CommitOffset that keeps the record in memory when persist fails
ApiCommitOffsetRollback(n, e, res) ==
    /\ phase = "api"
    /\ files[n].exists
    /\ e \in {0} \cup LineEnds(files[n])
    /\ e >= GetOffset(offsets, n)
    /\ res = "done" \/ CanFault
    /\ faults' = IF res = "done" THEN faults ELSE Fault("persist")
    /\ LET om == CommitOffset(offsets, n, e, LinesUpTo(files[n], e))
           dir == persist(disk, tmp, n, om[n], res) IN
       /\ offsets' = IF res = "done" THEN om ELSE offsets
       /\ disk' = dir.disk
       /\ tmp' = dir.tmp
    /\ call' = OffsetCall("CommitOffset", n, e, LinesUpTo(files[n], e), res = "done")
    /\ UNCHANGED <<files, segments>>
    /\ ApiFrameNoFault

\* CommitOffset of a line boundary of the segment, not below the last one;
\* res: the step at which persist returns; ret: the error returned is nil
ApiCommitOffset(n, e, res) ==
    /\ phase = "api"
    /\ files[n].exists
    /\ e \in {0} \cup LineEnds(files[n])
    /\ e >= GetOffset(offsets, n)
    /\ res = "done" \/ CanFault
    /\ faults' = IF res = "done" THEN faults ELSE Fault("persist")
    /\ LET om == CommitOffset(offsets, n, e, LinesUpTo(files[n], e))
           dir == persist(disk, tmp, n, om[n], res) IN
       /\ offsets' = om
       /\ disk' = dir.disk
       /\ tmp' = dir.tmp
    /\ call' = OffsetCall("CommitOffset", n, e, LinesUpTo(files[n], e), res = "done")
    /\ UNCHANGED <<files, segments>>
    /\ ApiFrameNoFault

\* GetOffset(segment): the two numbers returned
ApiGetOffset(n) ==
    /\ phase = "api"
    /\ call' = OffsetCall("GetOffset", n, GetOffset(offsets, n), GetLines(offsets, n), FALSE)
    /\ UNCHANGED <<files, disk, tmp, offsets, segments>>
    /\ ApiFrame

\* IsComplete(segment, size of its file)
ApiIsComplete(n) ==
    /\ phase = "api"
    /\ files[n].exists
    /\ call' = ApiCall("IsComplete", n, NoWorker, IsComplete(offsets, n, FileSize(files[n])))
    /\ UNCHANGED <<files, disk, tmp, offsets, segments>>
    /\ ApiFrame

ApiScan ==
    /\ phase = "api"
    /\ segments' = ScanSegments(segments, files, offsets)
    /\ call' = ApiCall("Scan", NoSeg, NoWorker, FALSE)
    /\ UNCHANGED <<files, disk, tmp, offsets>>
    /\ ApiFrame

ApiClaimSegment(n, w) ==
    /\ phase = "api"
    /\ LET r == ClaimSegment(segments, n, w) IN
       /\ segments' = r.sm
       /\ call' = ApiCall("ClaimSegment", n, w, r.ret)
    /\ UNCHANGED <<files, disk, tmp, offsets>>
    /\ ApiFrame

ApiMarkComplete(n) ==
    /\ phase = "api"
    /\ segments' = MarkComplete(segments, n)
    /\ call' = ApiCall("MarkComplete", n, NoWorker, FALSE)
    /\ UNCHANGED <<files, disk, tmp, offsets>>
    /\ ApiFrame

ApiReleaseSegment(n) ==
    /\ phase = "api"
    /\ segments' = ReleaseSegment(segments, n)
    /\ call' = ApiCall("ReleaseSegment", n, NoWorker, FALSE)
    /\ UNCHANGED <<files, disk, tmp, offsets>>
    /\ ApiFrame

NextApi ==
    \/ \E n \in Names : ApiRotate(n)
    \/ \E n \in Names, e \in 0..(MaxLines * (MaxLines + 3)), res \in PersistResults :
          ApiCommitOffset(n, e, res)
    \/ \E n \in Names : ApiGetOffset(n)
    \/ \E n \in Names : ApiIsComplete(n)
    \/ ApiScan
    \/ \E n \in Names, w \in Workers : ApiClaimSegment(n, w)
    \/ \E n \in Names : ApiMarkComplete(n)
    \/ \E n \in Names : ApiReleaseSegment(n)

SpecApi == InitApi /\ [][NextApi]_vars

\* ------------------------------------------------------------------ claims
InSegment == {"start", "loop", "release", "callback", "check", "final", "mark"}

\* the workers that are inside processSegment for segment n
Processing(n) == {w \in Workers : pc[w] \in InSegment /\ seg[w] = n}

IsState(n, st) == segments[n].exists /\ segments[n].State = st

\* C1: a segment is Processing exactly when its WorkerID names a worker, and
\* that worker is the only one inside processSegment for it; a segment that
\* is Pending, Complete or not registered has WorkerID -1 and no worker is
\* inside processSegment for it.
C1_SingleOwner ==
    \A n \in Names :
        IF IsState(n, SegmentProcessing)
        THEN /\ segments[n].WorkerID \in Workers
             /\ Processing(n) = {segments[n].WorkerID}
        ELSE /\ segments[n].WorkerID = NoWorker
             /\ Processing(n) = {}

C1_Witness ==
    \E w1, w2 \in Workers :
        /\ w1 # w2
        /\ pc[w1] = "callback"
        /\ pc[w2] = "try"
        /\ Head(todo[w2]) = seg[w1]

\* C2: a ClaimSegment call returns true exactly when the segment is
\* registered and Pending; a call that returns true moves that segment, and
\* nothing else, to Processing with the caller's id; a call that returns
\* false changes nothing.  So of the calls racing for one Pending segment the
\* first returns true and every other one false.
C2_ClaimExclusive ==
    [][(call'.op = "ClaimSegment") =>
        LET n == call'.name
            w == call'.worker IN
        IF IsState(n, SegmentPending)
        THEN /\ call'.ret
             /\ segments' = [segments EXCEPT ![n].State = SegmentProcessing,
                                             ![n].WorkerID = w]
        ELSE /\ ~call'.ret
             /\ segments' = segments]_vars

C2_Witness ==
    /\ call.op = "ClaimSegment"
    /\ ~call.ret
    /\ IsState(call.name, SegmentProcessing)
    /\ segments[call.name].WorkerID # call.worker

\* C9: once a segment is Complete, no call of Scan, ClaimSegment,
\* ReleaseSegment or MarkComplete changes its state or its owner.
C9_CompleteAbsorbing ==
    [][\A n \in Names : IsState(n, SegmentComplete) => segments'[n] = segments[n]]_vars

\* every line of segment n that ends at or below off has been given to the
\* callback
DeliveredUpTo(n, off) == \A e \in LineEnds(files[n]) : e <= off => e \in delivered[n]

Reading == {"loop", "callback", "check", "final", "mark", "release"}

SameProcess == phase' \notin {"none", "new"}

\* C3: the offset recorded for a segment in the offsets directory never
\* decreases, whichever commit writes it and across cancellation, re-claim,
\* crash and restart; within one process the offset held in memory never
\* decreases either.
C3_OffsetMonotone ==
    [][\A n \in Names :
        /\ disk[n].exists => disk'[n].exists /\ disk'[n].Offset >= disk[n].Offset
        /\ (SameProcess /\ offsets[n].exists) =>
               offsets'[n].exists /\ offsets'[n].Offset >= offsets[n].Offset]_vars

C3_Witness ==
    /\ runs = 2
    /\ crashes = 0
    /\ \E w \in Workers :
        /\ pc[w] = "release"
        /\ reader[w].lineNumber = 1
        /\ disk[seg[w]].Offset = reader[w].offset
        /\ reader[w].offset = FileSize(files[seg[w]])

\* C4: every line that ends at or below the offset recorded for its segment,
\* on disk or in memory, has been given to the callback; a reader never
\* passes a line that was not given to the callback, the record in hand
\* excepted; and a segment that is Complete without a read error has had
\* every line given to the callback.
C4_CommittedDelivered ==
    /\ \A n \in Names :
        /\ DeliveredUpTo(n, GetOffset(disk, n))
        /\ DeliveredUpTo(n, GetOffset(offsets, n))
        /\ (IsState(n, SegmentComplete) /\ n \notin readErr) =>
               delivered[n] = LineEnds(files[n])
    /\ \A w \in Workers :
        pc[w] \in Reading =>
            \A e \in LineEnds(files[seg[w]]) :
                e <= reader[w].offset =>
                    \/ e \in delivered[seg[w]]
                    \/ pc[w] = "callback" /\ e = reader[w].offset

C4_Witness ==
    /\ crashes = 1
    /\ \E w \in Workers :
        /\ pc[w] = "callback"
        /\ GetOffset(disk, seg[w]) > 0
        /\ reader[w].offset > GetOffset(disk, seg[w])
        /\ reader[w].offset \notin delivered[seg[w]]

\* C5: a segment that is Complete in the registry has its final offset, the
\* one the offset store holds in memory, recorded in the offsets directory.
C5_CompleteDurable ==
    \A n \in Names :
        IsState(n, SegmentComplete) =>
            disk[n].exists /\ disk[n].Offset = GetOffset(offsets, n)

\* C6: as long as no failure is injected and no process crashes, the callback
\* has been invoked once for each line given to it, over all runs, and once
\* for every line of a segment that is Complete.
C6_ExactlyOnce ==
    (FaultSum = 0 /\ crashes = 0) =>
        \A n \in Names :
            /\ cbCount[n] = Cardinality(delivered[n])
            /\ IsState(n, SegmentComplete) =>
                   /\ delivered[n] = LineEnds(files[n])
                   /\ cbCount[n] = Len(files[n].lines)

C6_Witness ==
    /\ FaultSum = 0
    /\ crashes = 0
    /\ runs = 2
    /\ \E n \in Names :
        /\ IsState(n, SegmentComplete)
        /\ n \in cbRun
        /\ cbCount[n] = 2
        /\ GetLines(offsets, n) = 1

\* C7: a segment that was Complete when an earlier process ended, after it
\* was read to end of file, is Complete as soon as a later process registers
\* it, and that process never gives a line of it to the callback.
C7_IdempotentResume ==
    \A n \in doneBefore :
        /\ n \notin cbRun
        /\ segments[n].exists => segments[n].State = SegmentComplete

\* C8: when a segment has been read to end of file without a read error,
\* from whichever committed offset the reader started, the final commit
\* records the size of the file, and IsComplete answers true for that size.
C8_FinalOffsetIsSize ==
    /\ \A w \in Workers :
        (pc[w] = "mark" /\ seg[w] \notin readErr) =>
            /\ GetOffset(offsets, seg[w]) = FileSize(files[seg[w]])
            /\ IsComplete(offsets, seg[w], FileSize(files[seg[w]]))
    /\ \A n \in Names :
        (IsState(n, SegmentComplete) /\ n \notin readErr) =>
            /\ GetOffset(offsets, n) = FileSize(files[n])
            /\ IsComplete(offsets, n, segments[n].Size)

C8_Witness ==
    \E w \in Workers :
        /\ pc[w] = "mark"
        /\ seg[w] \notin readErr
        /\ reader[w].lineNumber > 0
        /\ reader[w].lineNumber < Len(files[seg[w]].lines)
        /\ faults["persist"] = 1

\* C10: the offset the offset store holds for a registered segment, in
\* memory and on disk, is at most the size recorded for it at discovery.
C10_OffsetBound ==
    \A n \in Names :
        segments[n].exists =>
            /\ GetOffset(offsets, n) <= segments[n].Size
            /\ GetOffset(disk, n) <= segments[n].Size

C10_Witness ==
    \E n \in Names :
        /\ segments[n].exists
        /\ GetOffset(disk, n) = segments[n].Size
        /\ segments[n].Size > 0
        /\ IsState(n, SegmentPending)

\* C11: when the process dies at any step of a commit (before the temp file
\* is written, while it is written, between the write and the rename, after
\* the rename), what loadAll then yields for each segment is the record that
\* was in the offsets directory before the commit or the record of the
\* commit, whole; and what NewProcessor loads is the content of the
\* .offset.json files, whatever .offset.json.tmp files are left.
C11_CrashAtomic ==
    [][/\ (crashes' = crashes + 1) =>
            \A n \in Names :
                LET l == loadAll(disk', tmp')[n] IN
                \/ l = disk[n]
                \/ \E w \in Workers : AtCommit(w) /\ seg[w] = n /\ l = CommitData(w)
       /\ (phase' = "new") =>
            /\ offsets' = loadAll(disk, [n \in Names |-> NoTmp])
            /\ \A n \in Names : offsets'[n] = disk[n]]_vars

C11_Witness ==
    /\ phase = "new"
    /\ crashes > 0
    /\ \E n \in Names :
        /\ disk[n].exists
        /\ tmp[n].exists
        /\ tmp[n].whole
        /\ tmp[n].data.Offset > disk[n].Offset
        /\ offsets[n] = disk[n]

\* C12: a worker that finds the context cancelled at the top of the read loop
\* commits the offset of its reader, then releases the segment to Pending
\* with no owner, never to Complete, and then leaves run; when Stop has
\* returned every worker has exited and no segment is Processing, and as
\* long as the engine stays stopped there is no callback and no commit.
C12_GracefulShutdown ==
    [][/\ \A w \in Workers :
            SameProcess =>
                /\ (pc[w] = "loop" /\ ctxDone /\ pc'[w] # "loop") =>
                       /\ pc'[w] = "release"
                       /\ offsets'[seg[w]] = CommitData(w)
                       /\ segments' = segments
                /\ (pc[w] = "release" /\ pc'[w] # "release") =>
                       /\ pc'[w] = "run"
                       /\ segments'[seg[w]].State = SegmentPending
                       /\ segments'[seg[w]].WorkerID = NoWorker
                       /\ UNCHANGED <<offsets, disk, cbCount>>
                /\ (pc[w] = "run" /\ ctxDone /\ pc'[w] # "run") => pc'[w] = "exited"
       /\ (phase' = "stopped") =>
            /\ \A w \in Workers : pc'[w] = "exited"
            /\ \A n \in Names : segments'[n].State # SegmentProcessing
       /\ (phase = "stopped" /\ phase' = "stopped") =>
            UNCHANGED <<offsets, disk, tmp, cbCount, delivered, processed, errors>>]_vars

C12_Witness ==
    /\ phase = "stopped"
    /\ \E n \in Names :
        /\ IsState(n, SegmentPending)
        /\ disk[n].exists
        /\ disk[n].Offset > 0
        /\ disk[n].Offset < segments[n].Size
        /\ cbCount[n] = 1

\* C13: with the scanner and the workers scheduled fairly, no cancellation
\* and no I/O failure, every segment file that is in the logs directory
\* while the engine runs, at Start or rotated in later, is eventually
\* Complete in the registry with a record in the offsets directory whose
\* offset is the size of the file, every line having been given to the
\* callback.
C13_EventuallyComplete ==
    \A n \in Names :
        (files[n].exists /\ phase = "running") ~>
            (/\ IsState(n, SegmentComplete)
             /\ disk[n].exists
             /\ disk[n].Offset = FileSize(files[n])
             /\ delivered[n] = LineEnds(files[n]))

C13_Witness ==
    /\ phase = "running"
    /\ \A n \in Names :
        /\ IsState(n, SegmentComplete)
        /\ disk[n].exists
        /\ disk[n].Offset = FileSize(files[n])
    /\ \A w \in Workers : pc[w] = "run"
    /\ processed + errors = MaxLines * Cardinality({n \in Names : n % 2 = 1})

\* C14: a Scan leaves every segment that is already registered as it is
\* (state, owner, recorded size), whatever its state; it registers only
\* segments whose file exists; and a second Scan right after it, the logs
\* directory being the same, changes nothing.
C14_ScanMonotone ==
    [][(call'.op = "Scan") =>
        /\ \A n \in Names :
            /\ segments[n].exists => segments'[n] = segments[n]
            /\ segments'[n].exists => segments[n].exists \/ files[n].exists
        /\ ScanSegments(segments', files', offsets') = segments']_vars

C14_Witness ==
    /\ call.op = "Scan"
    /\ \E n, m \in Names :
        /\ IsState(n, SegmentProcessing)
        /\ GetOffset(offsets, n) >= segments[n].Size
        /\ IsState(m, SegmentComplete)
        /\ ~offsets[m].exists

\* C15: a Start that finds the engine running starts no worker and no
\* scanner and does not scan; a Stop that finds the engine not running does
\* not cancel and does not wait; and the number of live worker goroutines is
\* never above WorkerCount.
C15_StartStopIdempotent ==
    [][/\ (call' # call /\ call'.op = "Start" /\ phase = "running") =>
            /\ ~call'.ret
            /\ UNCHANGED <<phase, runs, ctxDone, scanner, workerWg, segments>>
       /\ (call' # call /\ call'.op = "Stop" /\ phase # "running") =>
            /\ ~call'.ret
            /\ UNCHANGED <<phase, runs, ctxDone, scanner, workerWg, segments>>
       /\ workerWg' <= WorkerCount]_vars

\* C16: when the callback returns an error the error counter goes up by one,
\* the processed counter and linesProcessed stay, the reader stays past the
\* record and the worker goes on to the periodic check and back to the read
\* loop, as after a success; every commit the worker makes afterwards
\* records the offset of the reader, which is past the record; and a record
\* that ends at or below the offset recorded in the offsets directory is
\* never given to the callback again.
C16_CallbackErrorContinues ==
    [][\A w \in Workers :
        /\ (pc[w] = "callback" /\ SameProcess /\ pc'[w] # "callback") =>
               /\ pc'[w] = "check"
               /\ reader'[w] = reader[w]
               /\ segments' = segments
               /\ reader[w].offset > GetOffset(disk, seg[w])
               /\ \/ /\ errors' = errors + 1
                     /\ processed' = processed
                     /\ linesProcessed'[w] = linesProcessed[w]
                  \/ /\ errors' = errors
                     /\ processed' = processed + 1
                     /\ linesProcessed'[w] = linesProcessed[w] + 1
        /\ (pc[w] = "check" /\ SameProcess /\ pc'[w] # "check") =>
               /\ pc'[w] = "loop"
               /\ offsets'[seg[w]] # offsets[seg[w]] =>
                      offsets'[seg[w]].Offset = reader[w].offset
        /\ (pc[w] \in {"loop", "final"} /\ SameProcess
              /\ offsets'[seg[w]] # offsets[seg[w]]) =>
               offsets'[seg[w]].Offset = reader[w].offset]_vars

C16_Witness ==
    /\ faults["callback"] = 1
    /\ errors = 1
    /\ \E n \in Names :
        /\ IsState(n, SegmentComplete)
        /\ disk[n].exists
        /\ disk[n].Offset = FileSize(files[n])
        /\ disk[n].LinesProcessed = Len(files[n].lines) - 1
        /\ cbCount[n] = Len(files[n].lines)
        /\ processed = Len(files[n].lines) - 1

\* C17: within one process the records of a segment reach the callback in
\* byte order: the record a worker holds for the callback ends beyond every
\* record of that segment given to the callback before, whichever worker
\* gave it and however often the segment was released and claimed again;
\* and at no time do two workers hold a record of the same segment for the
\* callback.
C17_ByteOrder ==
    /\ \A w \in Workers :
        pc[w] = "callback" => reader[w].offset > lastPost[seg[w]]
    /\ \A n \in Names :
        /\ Cardinality({w \in Workers : pc[w] = "callback" /\ seg[w] = n}) <= 1
        /\ lastPost[n] \in delivered[n] \cup {0}

C17_Witness ==
    \E w, v \in Workers :
        /\ w # v
        /\ pc[w] = "callback"
        /\ reader[w].lineNumber = 1
        /\ lastPost[seg[w]] > 0
        /\ pc[v] = "try"
        /\ Head(todo[v]) = seg[w]

\* the records of the segment of worker w that were given to the callback and
\* end beyond the offset recorded for the segment in the offsets directory
Uncommitted(w) == {e \in delivered[seg[w]] : e > GetOffset(disk, seg[w])}

\* C18: whenever a worker is at the cancellation check of the read loop, at
\* most CommitInterval - 1 records already given to the callback end beyond
\* the last committed offset of the segment, whatever the callback returned
\* for them.
C18_CommitWindow ==
    \A w \in Workers :
        pc[w] = "loop" => Cardinality(Uncommitted(w)) <= CommitInterval - 1

\* C19: when Read returns an error other than end of file, the worker leaves
\* the read loop with its reader where the last whole line ended, commits
\* that offset and marks the segment Complete; the segment is not released,
\* and for the rest of the life of the process it stays Complete with no
\* owner and none of its records is given to the callback, although the
\* committed offset is below its size.
C19_ReadErrorCompletes ==
    [][SameProcess =>
        /\ \A w \in Workers :
            /\ (pc[w] = "loop" /\ faults'["read"] # faults["read"] /\ pc'[w] # "loop") =>
                   /\ pc'[w] = "final"
                   /\ seg[w] \in readErr'
                   /\ reader'[w] = reader[w]
                   /\ UNCHANGED <<offsets, disk, segments, cbCount>>
            /\ (pc[w] = "final" /\ pc'[w] # "final") =>
                   /\ pc'[w] = "mark"
                   /\ offsets'[seg[w]] = CommitData(w)
                   /\ segments' = segments
            /\ (pc[w] = "mark" /\ pc'[w] # "mark") =>
                   /\ segments'[seg[w]].State = SegmentComplete
                   /\ segments'[seg[w]].WorkerID = NoWorker
        /\ \A n \in readErr :
            /\ n \in readErr'
            /\ IsState(n, SegmentComplete) =>
                   /\ segments'[n] = segments[n]
                   /\ cbCount'[n] = cbCount[n]
                   /\ offsets'[n] = offsets[n]]_vars

C19_Witness ==
    /\ phase = "running"
    /\ \E n \in Names :
        /\ n \in readErr
        /\ IsState(n, SegmentComplete)
        /\ disk[n].exists
        /\ disk[n].Offset > 0
        /\ disk[n].Offset < segments[n].Size
        /\ \E w \in Workers : pc[w] = "run" /\ seg[w] = NoSeg

\* C20: when NewLogReader fails for a claimed segment, the worker adds one to
\* the error counter, releases the segment to Pending with no owner and
\* returns to run; no callback is invoked, the processed counter stays, and
\* the offset store, in memory and in the offsets directory, is unchanged.
C20_OpenFailReleases ==
    [][\A w \in Workers :
        (pc[w] = "start" /\ SameProcess /\ pc'[w] # "start") =>
            \/ /\ pc'[w] = "loop"
               /\ UNCHANGED <<errors, segments, offsets, disk, tmp, cbCount>>
            \/ /\ pc'[w] = "run"
               /\ faults'["open"] = faults["open"] + 1
               /\ errors' = errors + 1
               /\ segments' = [segments EXCEPT ![seg[w]].State = SegmentPending,
                                               ![seg[w]].WorkerID = NoWorker]
               /\ UNCHANGED <<offsets, disk, tmp, cbCount, delivered, processed>>]_vars

C20_Witness ==
    /\ faults["open"] = 1
    /\ errors = 1
    /\ phase = "running"
    /\ \E n \in Names :
        /\ IsState(n, SegmentPending)
        /\ segments[n].WorkerID = NoWorker
        /\ offsets[n].exists
        /\ offsets[n].Offset > 0
        /\ offsets[n].Offset < segments[n].Size
        /\ disk[n] = offsets[n]
        /\ Processing(n) = {}


\* C21: within one process every change of a registered segment is one of
\* three edges: Pending to Processing by the claim of a worker that is
\* trying it, which becomes its owner; Processing to Complete by the
\* MarkComplete of its owner; Processing to Pending by the ReleaseSegment of
\* its owner; the recorded size never changes.  A worker that is about to
\* call MarkComplete or ReleaseSegment owns the segment it names.
C21_ThreeEdges ==
    [][/\ \A w \in Workers :
            pc[w] \in {"start", "release", "mark"} =>
                /\ IsState(seg[w], SegmentProcessing)
                /\ segments[seg[w]].WorkerID = w
       /\ SameProcess =>
            \A n \in Names :
                (segments[n].exists /\ segments'[n] # segments[n]) =>
                    /\ segments'[n].exists
                    /\ segments'[n].Size = segments[n].Size
                    /\ \/ /\ segments[n].State = SegmentPending
                          /\ segments'[n].State = SegmentProcessing
                          /\ \E w \in Workers :
                                /\ pc[w] = "try"
                                /\ Head(todo[w]) = n
                                /\ segments'[n].WorkerID = w
                                /\ pc'[w] = "start"
                                /\ seg'[w] = n
                       \/ /\ segments[n].State = SegmentProcessing
                          /\ segments'[n].State = SegmentComplete
                          /\ segments'[n].WorkerID = NoWorker
                          /\ pc[segments[n].WorkerID] = "mark"
                          /\ seg[segments[n].WorkerID] = n
                       \/ /\ segments[n].State = SegmentProcessing
                          /\ segments'[n].State = SegmentPending
                          /\ segments'[n].WorkerID = NoWorker
                          /\ pc[segments[n].WorkerID] \in {"start", "release"}
                          /\ seg[segments[n].WorkerID] = n]_vars

C21_Witness ==
    /\ faults["open"] = 1
    /\ \E w \in Workers :
        /\ pc[w] = "mark"
        /\ cbCount[seg[w]] = MaxLines
        /\ \E n \in Names : n # seg[w] /\ IsState(n, SegmentComplete)


\* the positions at which a reader opened at offset s stops
StopsAfter(raw, s) == {b \in Boundaries(raw) : b > s}

AtEnd(w) ==
    /\ reader[w].lineNumber = 0
    /\ reader[w].offset = FileSize(files[seg[w]])

\* C23: a worker whose reader starts at the size of the file (an empty
\* segment with no offset record, or a segment read to its end before a
\* cancellation and claimed again) gets end of stream from its first Read,
\* unless it finds the context cancelled first and releases the segment; it
\* never holds a record for the callback; it commits the size of the file
\* and marks the segment Complete, no callback having been invoked.
C23_StartAtEnd ==
    [][\A w \in Workers :
        /\ (pc'[w] \in {"callback", "check"}) =>
               ~(reader'[w].lineNumber = 0)
        /\ (SameProcess /\ pc[w] \in {"loop", "final", "mark"} /\ AtEnd(w)) =>
               /\ cbCount'[seg[w]] = cbCount[seg[w]]
               /\ processed' >= processed
               /\ (pc[w] = "loop" /\ pc'[w] # "loop") =>
                      /\ reader'[w] = reader[w]
                      /\ \/ pc'[w] = "final"
                         \/ ctxDone /\ pc'[w] = "release"
               /\ (pc[w] = "final" /\ pc'[w] # "final") =>
                      /\ pc'[w] = "mark"
                      /\ offsets'[seg[w]].exists
                      /\ offsets'[seg[w]].Offset = FileSize(files[seg[w]])
               /\ (pc[w] = "mark" /\ pc'[w] # "mark") =>
                      /\ segments'[seg[w]].State = SegmentComplete
                      /\ IsComplete(offsets', seg[w], segments'[seg[w]].Size)]_vars

C23_Witness ==
    /\ runs = 2
    /\ \E w \in Workers :
        /\ pc[w] = "mark"
        /\ AtEnd(w)
        /\ reader[w].offset > 0
        /\ cbCount[seg[w]] = Len(files[seg[w]].lines)
    /\ \E m \in Names :
        /\ IsState(m, SegmentComplete)
        /\ FileSize(files[m]) = 0
        /\ disk[m].exists
        /\ disk[m].Offset = 0
        /\ cbCount[m] = 0


\* C24: a step that registers a segment gives it no owner, the size of its
\* file, and the state Complete if and only if the offset store holds a
\* record for it whose offset is at least that size, Pending otherwise (with
\* no record it is Pending even when the file is empty); and a segment that
\* is Complete stays as it is for the rest of the process: no worker claims
\* it or holds it, and nothing of it is given to the callback.
C24_FirstSight ==
    [][\A n \in Names :
        /\ (~segments[n].exists /\ segments'[n].exists) =>
               /\ segments'[n].WorkerID = NoWorker
               /\ segments'[n].Size = FileSize(files'[n])
               /\ segments'[n].State \in {SegmentPending, SegmentComplete}
               /\ (segments'[n].State = SegmentComplete) <=>
                      (offsets'[n].exists /\ offsets'[n].Offset >= FileSize(files'[n]))
               /\ \A w \in Workers : ~(pc'[w] \in InSegment /\ seg'[w] = n)
        /\ (SameProcess /\ IsState(n, SegmentComplete)) =>
               /\ segments'[n] = segments[n]
               /\ cbCount'[n] = cbCount[n]
               /\ delivered'[n] = delivered[n]
               /\ \A w \in Workers :
                      ~(pc'[w] \in InSegment /\ seg'[w] = n)]_vars

\* in a process started after a crash, a segment with records is Complete
\* though this process neither gave any of it to the callback nor failed to
\* read it, next to an empty segment with no record that a worker holds
C24_Witness ==
    /\ crashes = 1
    /\ phase = "running"
    /\ \E n \in Names :
        /\ IsState(n, SegmentComplete)
        /\ FileSize(files[n]) > 0
        /\ n \notin cbRun
        /\ n \notin readErr
        /\ offsets[n].Offset = FileSize(files[n])
        /\ \E w \in Workers :
            /\ pc[w] \in InSegment
            /\ seg[w] # n
            /\ FileSize(files[seg[w]]) = 0
            /\ ~disk[seg[w]].exists


\* the segments worker w owns in the registry
Owned(w) == {n \in Names : segments[n].exists /\ segments[n].WorkerID = w}

\* worker w takes segment n in this step
Claims(w, n) ==
    /\ IsState(n, SegmentPending)
    /\ segments'[n].State = SegmentProcessing
    /\ segments'[n].WorkerID = w

\* the list of GetPendingSegments is exactly the Pending segments in
\* ascending order of name, the worker tries the names of its list in that
\* order, one per step, and stops at the first it claims, which it then
\* processes; a worker owns at most one segment at any time
SnapshotOrder ==
    \A w \in Workers :
        /\ Cardinality(Owned(w)) <= 1
        /\ (pc[w] \in InSegment) => Owned(w) = {seg[w]}
        /\ \A i, j \in 1..Len(todo'[w]) : i < j => todo'[w][i] < todo'[w][j]
        /\ (pc[w] = "run" /\ pc'[w] = "try") =>
               /\ {todo'[w][i] : i \in 1..Len(todo'[w])} =
                      {n \in Names : IsState(n, SegmentPending)}
               /\ segments' = segments
        /\ (pc[w] = "try" /\ pc'[w] # "try" /\ SameProcess) =>
               \/ /\ pc'[w] = "start"
                  /\ Claims(w, Head(todo[w]))
                  /\ seg'[w] = Head(todo[w])
                  /\ todo'[w] = <<>>
               \/ /\ pc'[w] = "run"
                  /\ ~IsState(Head(todo[w]), SegmentPending)
                  /\ Tail(todo[w]) = <<>>
                  /\ segments' = segments
        /\ (pc[w] = "try" /\ pc'[w] = "try" /\ todo'[w] # todo[w]) =>
               /\ ~IsState(Head(todo[w]), SegmentPending)
               /\ todo'[w] = Tail(todo[w])
               /\ segments' = segments
        /\ \A n \in Names : Claims(w, n) => pc[w] = "try" /\ n = Head(todo[w])

\* C25 (as amended): GetPendingSegments returns exactly the Pending segments
\* in ascending order of name, a worker tries them in that order and
\* processes only the first it claims, so it owns at most one segment at any
\* time and takes the lowest-named segment of its list that is Pending at
\* the moment the worker tries it.
C25_LowestOfSnapshot == [][SnapshotOrder]_vars

\* a worker is about to claim the second segment of the list it took while
\* the first segment, released since, is Pending again
C25_Witness ==
    \E w \in Workers :
        /\ pc[w] = "try"
        /\ Head(todo[w]) = 2
        /\ IsState(1, SegmentPending)
        /\ IsState(2, SegmentPending)

\* C25 (as stated): the same, and the segment a worker takes is the
\* lowest-named segment claimable at that moment.
C25_LowestClaimable ==
    [][/\ SnapshotOrder
       /\ \A w \in Workers : \A n \in Names :
              Claims(w, n) => \A m \in Names : m < n => ~IsState(m, SegmentPending)]_vars


\* C26: within a process, no step replaces the offset record of a segment,
\* in memory or on disk, by one with a smaller lines_processed.
C26_LinesMonotone ==
    [][SameProcess =>
        \A n \in Names :
            /\ (offsets[n].exists /\ offsets'[n].exists) =>
                   offsets'[n].LinesProcessed >= offsets[n].LinesProcessed
            /\ (disk[n].exists /\ disk'[n].exists) =>
                   disk'[n].LinesProcessed >= disk[n].LinesProcessed]_vars


\* C27: CommitOffset puts the record (offset, lines_processed) it is given
\* in memory whatever persist does and touches no other record; it returns
\* nil exactly when the rename was done, and then the record on disk is the
\* new one, while after an error the records on disk are the previous ones;
\* GetOffset and IsComplete answer from the record in memory, GetOffset with
\* (0, 0) when there is none.
C27_CommitFailure ==
    [][LET n == call'.name IN
       /\ (call'.op = "CommitOffset") =>
              /\ offsets'[n] = OffsetData(call'.offset, call'.lines)
              /\ \A m \in Names \ {n} : offsets'[m] = offsets[m]
              /\ IF call'.ret
                 THEN disk'[n] = offsets'[n] /\ ~tmp'[n].exists
                 ELSE disk' = disk /\ tmp'[n].exists
              /\ GetOffset(offsets', n) = call'.offset
              /\ GetLines(offsets', n) = call'.lines
       /\ (call'.op = "GetOffset") =>
              /\ offsets' = offsets
              /\ IF offsets[n].exists
                 THEN call'.offset = offsets[n].Offset /\ call'.lines = offsets[n].LinesProcessed
                 ELSE call'.offset = 0 /\ call'.lines = 0
       /\ (call'.op = "IsComplete") =>
              /\ offsets' = offsets
              /\ call'.ret <=> (offsets[n].exists /\ offsets[n].Offset >= FileSize(files[n]))]_vars

\* IsComplete answers true from a record whose persist failed, the record on
\* disk being an earlier one
C27_Witness ==
    /\ call.op = "IsComplete"
    /\ call.ret
    /\ FileSize(files[call.name]) > 0
    /\ disk[call.name].exists
    /\ disk[call.name].Offset < offsets[call.name].Offset
    /\ tmp[call.name].exists
    /\ offsets[call.name].LinesProcessed = MaxLines


\* C28: between CommitOffset calls, the offset and the lines_processed of
\* every segment in the in-memory map are those of its record on disk (both
\* 0 where there is no record).
C28_MemoryIsDisk ==
    (phase \in {"new", "running", "stopping", "stopped"}) =>
        \A n \in Names :
            /\ offsets[n].Offset = disk[n].Offset
            /\ offsets[n].LinesProcessed = disk[n].LinesProcessed


\* C29: a worker commits between a callback and the next Read only when
\* that callback succeeded and brought linesProcessed to a positive multiple
\* of CommitInterval.
C29_PeriodicOnSuccess ==
    [][\A w \in Workers :
        (/\ SameProcess
         /\ pc[w] = "check"
         /\ pc'[w] = "loop"
         /\ <<offsets, disk, tmp, faults>>' # <<offsets, disk, tmp, faults>>) =>
            /\ linesProcessed[w] > 0
            /\ linesProcessed[w] % CommitInterval = 0
            /\ processed > 0]_vars


\* the callback invocations so far, over all segments
Invocations == SumSeq([n \in Names |-> cbCount[n]])

\* C30: within a process, a step that invokes the callback adds one to
\* processed when the callback succeeds and one to errors when it fails,
\* never to both; a failed reader open adds one to errors; no other step
\* changes either counter, so neither decreases; and in the first run of
\* the first process processed is the number of successful invocations and
\* errors the number of failed invocations plus failed opens.
C30_Counters ==
    [][/\ SameProcess =>
            /\ processed' >= processed
            /\ errors' >= errors
            /\ IF Invocations' = Invocations + 1
               THEN \E w \in Workers :
                        /\ pc[w] = "callback" /\ pc'[w] = "check"
                        /\ IF faults' = faults
                           THEN processed' = processed + 1 /\ errors' = errors
                           ELSE processed' = processed /\ errors' = errors + 1
               ELSE /\ Invocations' = Invocations
                    /\ processed' = processed
                    /\ IF \E w \in Workers : pc[w] = "start" /\ pc'[w] = "run"
                       THEN errors' = errors + 1
                       ELSE errors' = errors
       /\ (runs' = 1 /\ crashes' = 0 /\ phase' \in {"running", "stopping", "stopped"}) =>
            /\ processed' = Invocations' - faults'["callback"]
            /\ errors' = faults'["callback"] + faults'["open"]]_vars

\* the engine has stopped after a failed open and MaxLines successful
\* callbacks
C30_Witness ==
    /\ phase = "stopped"
    /\ runs = 1
    /\ crashes = 0
    /\ faults["open"] = 1
    /\ errors = 1
    /\ processed = MaxLines
    /\ Invocations = MaxLines


\* GetStats: the number of segments of the registry, and of those in each
\* state
GetStats(sm) ==
    LET In(st) == Cardinality({n \in Names : sm[n].exists /\ sm[n].State = st}) IN
    [total |-> Cardinality({n \in Names : sm[n].exists}),
     pending |-> In(SegmentPending),
     processing |-> In(SegmentProcessing),
     complete |-> In(SegmentComplete)]

\* the statistics of registry sm add up, and its Processing segments are
\* the segments of the workers that are inside processSegment, one each
StatsConsistent(sm, at, sg) ==
    LET st == GetStats(sm)
        busy == {w \in Workers : at[w] \in InSegment} IN
    /\ st.total = st.pending + st.processing + st.complete
    /\ {n \in Names : sm[n].exists /\ sm[n].State = SegmentProcessing} = {sg[w] : w \in busy}
    /\ st.processing = Cardinality(busy)
    /\ st.processing <= WorkerCount

\* C31: in every state the total of GetStats is the sum of its three other
\* numbers and the number of Processing segments is the number of workers
\* inside processSegment, so at most WorkerCount; and within a process no
\* step lowers the total.
C31_Stats ==
    [][/\ StatsConsistent(segments, pc, seg)
       /\ StatsConsistent(segments', pc', seg')
       /\ SameProcess => GetStats(segments').total >= GetStats(segments).total]_vars

\* in the second run every worker holds a segment, one of them about to
\* mark its segment Complete, after a failed open released one
C31_Witness ==
    /\ GetStats(segments).processing = WorkerCount
    /\ GetStats(segments).total = NumSegs
    /\ faults["open"] = 1
    /\ runs = 2
    /\ \E w \in Workers : pc[w] = "mark"


\* C32: with one segment file that can never be opened, the scanner and the
\* workers scheduled fairly and no cancellation, every registered segment
\* whose file can be opened is eventually Complete, whatever the number of
\* workers.
C32_NoStarvation ==
    \A n \in Names :
        (phase = "running" /\ segments[n].exists /\ ~files[n].locked) ~>
            IsState(n, SegmentComplete)


\* how far a worker at a place of run and processSegment is from its exit
\* once the context is cancelled: every place it can go to from there is
\* nearer
ExitDistance(at) ==
    CASE at = "try" -> 8
      [] at = "start" -> 7
      [] at = "callback" -> 6
      [] at = "check" -> 5
      [] at = "loop" -> 4
      [] at \in {"release", "final"} -> 3
      [] at = "mark" -> 2
      [] at = "run" -> 1
      [] OTHER -> 0

\* C33: while the context stays cancelled, every move of a worker brings it
\* nearer to its exit; the callback is invoked only on the way from
\* "callback" to "check" and a segment is claimed only on the way from "try"
\* to "start", so a worker does each at most once more, and never reads; a
\* worker in the read loop that has read nothing commits the offset the
\* segment had, which it started from, and goes on to release the segment to
\* Pending and leave it.
C33_CancelBounded ==
    [][(ctxDone /\ ctxDone' /\ SameProcess) =>
        \A w \in Workers :
            /\ (pc'[w] # pc[w]) => ExitDistance(pc'[w]) < ExitDistance(pc[w])
            /\ (pc'[w] = pc[w] /\ todo'[w] # todo[w]) => Len(todo'[w]) < Len(todo[w])
            /\ reader'[w] \in {reader[w], NoReader} \/ (pc[w] = "start" /\ pc'[w] = "loop")
            /\ (pc[w] \in InSegment /\ cbCount'[seg[w]] # cbCount[seg[w]]) =>
                   \E v \in Workers : seg[v] = seg[w] /\ pc[v] = "callback" /\ pc'[v] = "check"
            /\ (\E n \in Names : Claims(w, n)) => (pc[w] = "try" /\ pc'[w] = "start")
            /\ (pc[w] = "loop" /\ pc'[w] # "loop") =>
                   /\ pc'[w] = "release"
                   /\ cbCount' = cbCount
                   /\ offsets'[seg[w]].exists
                   /\ offsets'[seg[w]].Offset = reader[w].offset
                   /\ reader[w].lineNumber = 0 =>
                          /\ offsets'[seg[w]].Offset = GetOffset(offsets, seg[w])
                          /\ offsets'[seg[w]].LinesProcessed = 0
            /\ (pc[w] = "release" /\ pc'[w] # "release") =>
                   /\ pc'[w] = "run"
                   /\ segments'[seg[w]].State = SegmentPending
                   /\ segments'[seg[w]].WorkerID = NoWorker]_vars

\* in the first run, no callback having failed, a worker is about to release
\* a segment it has read nothing from and whose offset was committed in the
\* middle of the file: it claimed the segment after the cancellation that
\* made another worker commit that offset
C33_Witness ==
    /\ ctxDone
    /\ runs = 1
    /\ crashes = 0
    /\ faults["callback"] = 0
    /\ \E w \in Workers :
        /\ pc[w] = "release"
        /\ reader[w].lineNumber = 0
        /\ reader[w].offset > 0
        /\ reader[w].offset < FileSize(files[seg[w]])
        /\ offsets[seg[w]].Offset = reader[w].offset
        /\ cbCount[seg[w]] = 1


\* the segments whose files in the offsets directory, record or temp file,
\* differ between two states of the directory
ChangedOnDisk(d1, t1, d2, t2) == {n \in Names : d1[n] # d2[n] \/ t1[n] # t2[n]}

\* C34: a step that changes a file of the offsets directory, or within a
\* process a record of the in-memory map, is a CommitOffset of one worker
\* for its segment and changes nothing of any other segment, in memory or
\* on disk, whatever the other workers are doing.
C34_CommitFrame ==
    [][LET onDisk == ChangedOnDisk(disk, tmp, disk', tmp')
           inMemory == IF SameProcess THEN {n \in Names : offsets'[n] # offsets[n]} ELSE {} IN
       (onDisk \cup inMemory # {}) =>
           \E w \in Workers :
               /\ pc[w] \in InSegment
               /\ AtCommit(w)
               /\ onDisk \cup inMemory = {seg[w]}
               /\ SameProcess => offsets'[seg[w]] = CommitData(w)]_vars

\* a worker has just made its final commit for one segment while another
\* worker, about to commit for another segment, has its record in memory and
\* on disk and a temp file left by a failed persist
C34_Witness ==
    \E w, v \in Workers :
        /\ pc[w] = "mark"
        /\ pc[v] \in {"check", "final"}
        /\ AtCommit(v)
        /\ seg[w] # seg[v]
        /\ disk[seg[w]] = offsets[seg[w]]
        /\ disk[seg[w]].exists
        /\ disk[seg[v]].exists
        /\ offsets[seg[v]] # disk[seg[v]]
        /\ tmp[seg[v]].exists

====
